---------------------------- MODULE Spec2Model ----------------------------
(***************************************************************************)
(* nim-react-toastify: the scaffolding CLI (cli.js) and the toast provider *)
(* it installs (templates/provider.*.tsx).                                 *)
(*                                                                         *)
(* Source text is modelled as a sequence of lexemes.  Every lexeme stands  *)
(* for the literal characters it spells; the lexemes that the regular      *)
(* expressions of cli.js look at ("return", "(", ")", "<", ">", "import",  *)
(* " ", "\n", ";", ...) are kept apart, so that every regular expression   *)
(* and every index computation of cli.js has the same result on the        *)
(* lexeme sequence as on the characters.  No lexeme other than "(" and     *)
(* ")" contains a parenthesis, and no lexeme other than "\n" a line break. *)
(***************************************************************************)
EXTENDS Integers, Sequences, FiniteSets, TLC

VARIABLES
    \* ---- the project directory the CLI runs in
    pkgJson,        \* package.json: [kind, dependencies, devDependencies]
    markers,        \* which of app.json, expo.json, expo.config.js exist
    roots,          \* candidate index -> [exists, data]
    providerFiles,  \* "tsx" / "jsx" -> content of src/nim-react-toastify/NotificationsProvider.<ext>
    targetDir,      \* src/nim-react-toastify exists
    \* ---- one invocation of cli.js
    pc,             \* the statement the invocation is at
    stack, rootPath, code, before, exitCode,
    runs,           \* invocations so far
    \* ---- observation of the invocation (not program state)
    atStart,        \* the files as the invocation found them, and the previous exit status
    err,            \* what the invocation failed on (its message on stderr), "" if nothing
    touched,        \* candidate root files the invocation has read or written
    \* ---- the toast provider component
    items,          \* useState<NoticeItem[]>: the toasts displayed, newest first
    timers,         \* timers.current: id -> timer handle
    scheduled,      \* the timers the runtime has pending: handle -> the id hide is called with
    \* ---- observation of the component (not program state)
    asked,          \* id -> the duration option the displayed toast was shown with
    lastOp          \* the operation that ran last

cliVars == <<pkgJson, markers, roots, providerFiles, targetDir, pc, stack,
             rootPath, code, before, exitCode, runs, atStart, err, touched>>
toastVars == <<items, timers, scheduled, asked, lastOp>>
vars == <<cliVars, toastVars>>

---------------------------------------------------------------------------
(* Text helpers: JavaScript string operations on lexeme sequences.         *)

Provider == "NotificationsProvider"

IsWS(c) == c \in {" ", "\n"}

\* s.slice(a) / s.slice(a, b) with 1-based inclusive bounds
Slice(s, a, b) == SubSeq(s, a, b)

\* does `needle` occur in `s` at position i
OccursAt(s, needle, i) ==
    /\ i >= 1
    /\ i + Len(needle) - 1 <= Len(s)
    /\ \A k \in 1..Len(needle) : s[i + k - 1] = needle[k]

\* String.prototype.includes
Includes(s, needle) == \E i \in 1..(Len(s) + 1) : OccursAt(s, needle, i)

\* String.prototype.lastIndexOf, 1-based; 0 when absent
LastIndexOf(s, needle) ==
    LET hits == {i \in 1..(Len(s) + 1) : OccursAt(s, needle, i)}
    IN  IF hits = {} THEN 0 ELSE CHOOSE i \in hits : \A j \in hits : j <= i

\* end of a greedy \s* that starts at i: the first position >= i that holds no white space
RECURSIVE SkipWS(_, _)
SkipWS(s, i) == IF i <= Len(s) /\ IsWS(s[i]) THEN SkipWS(s, i + 1) ELSE i

\* end of a greedy .* that starts at i: the first position >= i that holds a line break
RECURSIVE SkipLine(_, _)
SkipLine(s, i) == IF i <= Len(s) /\ s[i] # "\n" THEN SkipLine(s, i + 1) ELSE i

Min(S) == CHOOSE x \in S : \A y \in S : x <= y
Max(S) == CHOOSE x \in S : \A y \in S : y <= x


---------------------------------------------------------------------------
(* Paths: a file is [dir, name]; dir is the sequence of directory names    *)
(* below the working directory, name the dot-separated parts of the base   *)
(* name (<<"layout", "tsx">> is layout.tsx).                               *)

File(dir, name) == [dir |-> dir, name |-> name]

\* cli.js:36-56, in priority order
candidates ==
    << File(<<"app">>, <<"layout", "tsx">>),
       File(<<"app">>, <<"layout", "jsx">>),
       File(<<"src", "app">>, <<"layout", "tsx">>),
       File(<<"src", "app">>, <<"layout", "jsx">>),
       File(<<"app">>, <<"_layout", "tsx">>),
       File(<<"app">>, <<"_layout", "jsx">>),
       File(<<>>, <<"App", "tsx">>),
       File(<<>>, <<"App", "jsx">>),
       File(<<"src">>, <<"App", "tsx">>),
       File(<<"src">>, <<"App", "jsx">>),
       File(<<>>, <<"App", "js">>),
       File(<<"src">>, <<"App", "js">>),
       File(<<>>, <<"index", "tsx">>),
       File(<<>>, <<"index", "jsx">>),
       File(<<"src">>, <<"index", "tsx">>),
       File(<<"src">>, <<"index", "jsx">>) >>

CandIdx == 1..Len(candidates)

Last(s) == s[Len(s)]
Front(s) == SubSeq(s, 1, Len(s) - 1)

\* /\.tsx?$/.test(rootPath)
usesTS(f) == Len(f.name) > 1 /\ Last(f.name) \in {"ts", "tsx"}

targetDirPath == <<"src", "nim-react-toastify">>

providerExt(root) == IF usesTS(root) THEN "tsx" ELSE "jsx"

providerFile(root) == File(targetDirPath, <<Provider, providerExt(root)>>)

\* number of leading directory names two directories share
RECURSIVE CommonLen(_, _)
CommonLen(a, b) ==
    IF a # <<>> /\ b # <<>> /\ a[1] = b[1]
    THEN 1 + CommonLen(Tail(a), Tail(b))
    ELSE 0

\* path.relative(fromDir, to): ".." for every directory of fromDir below the
\* common ancestor, then what remains of `to`
pathRelative(fromDir, to) ==
    LET c == CommonLen(fromDir, to.dir)
    IN  File([i \in 1..(Len(fromDir) - c) |-> ".."] \o SubSeq(to.dir, c + 1, Len(to.dir)),
             to.name)

\* .replace(/\.tsx?$/, "")
stripTs(f) ==
    IF Len(f.name) > 1 /\ Last(f.name) \in {"ts", "tsx"}
    THEN File(f.dir, Front(f.name)) ELSE f

\* .replace(/\.jsx?$/, "")
stripJs(f) ==
    IF Len(f.name) > 1 /\ Last(f.name) \in {"js", "jsx"}
    THEN File(f.dir, Front(f.name)) ELSE f

\* the module specifier of the injected import (cli.js:99-105); posixPath,
\* .replace(/^\.\./, m => m) and .replace(/\\/g, "/") change nothing on a
\* POSIX relative path
importSpecifier(root) ==
    stripJs(stripTs(pathRelative(root.dir, providerFile(root))))

RECURSIVE Join(_, _)
Join(parts, sep) ==
    IF parts = <<>> THEN <<>>
    ELSE IF Len(parts) = 1 THEN <<parts[1]>>
    ELSE <<parts[1], sep>> \o Join(Tail(parts), sep)

\* the characters of a path, as lexemes
pathText(f) ==
    (IF f.dir = <<>> THEN <<>> ELSE Join(f.dir, "/") \o <<"/">>) \o Join(f.name, ".")

\* import { NotificationsProvider } from "<specifier>";
importLine(root) ==
    <<"import", " ", "{", " ", Provider, " ", "}", " ", "from", " ", "\"">>
        \o pathText(importSpecifier(root)) \o <<"\"", ";">>

---------------------------------------------------------------------------
(* The source patcher: import injection (cli.js:107-123).                  *)

\* code.match(new RegExp(`import\\s*\\{\\s*${providerName}\\s*\\}`))
matchesProviderImport(c) ==
    \E i \in 1..Len(c) :
        /\ c[i] = "import"
        /\ LET j == SkipWS(c, i + 1) IN
           /\ j <= Len(c) /\ c[j] = "{"
           /\ LET k == SkipWS(c, j + 1) IN
              /\ k <= Len(c) /\ c[k] = Provider
              /\ LET l == SkipWS(c, k + 1) IN l <= Len(c) /\ c[l] = "}"

\* the starts of the matches of /(^|\n)import .*;?/g: the start of the text
\* or a line break, then "import" and one space
importStarts(c) ==
    {i \in 1..Len(c) :
        \/ i = 1 /\ OccursAt(c, <<"import", " ">>, 1)
        \/ OccursAt(c, <<"\n", "import", " ">>, i)}

\* the text of the match that starts at i: up to the end of the line
importMatch(c, i) ==
    LET kw == IF c[i] = "\n" THEN i + 1 ELSE i
    IN  Slice(c, i, SkipLine(c, kw + 2) - 1)

importAlreadyThere(c, root) ==
    Includes(c, importLine(root)) \/ matchesProviderImport(c)

injectImport(c, root) ==
    IF importAlreadyThere(c, root) THEN c
    ELSE IF importStarts(c) # {}
    THEN LET lastImport == importMatch(c, Max(importStarts(c)))
             idx == LastIndexOf(c, lastImport) + Len(lastImport) - 1
         IN  Slice(c, 1, idx) \o <<"\n">> \o importLine(root) \o <<"\n">>
                 \o Slice(c, idx + 1, Len(c))
    ELSE importLine(root) \o <<"\n">> \o c

---------------------------------------------------------------------------
(* The source patcher: wrapJSXReturn (cli.js:201-235).                     *)

openTag == <<"<", Provider, ">">>
closeTag == <<"</", Provider, ">">>

\* /return\s*\(\s*<[^>]/ matched at i; the value is the position of "<", 0 when
\* there is no match at i
returnJSXAt(c, i) ==
    IF c[i] # "return" THEN 0
    ELSE LET j == SkipWS(c, i + 1) IN
         IF ~(j <= Len(c) /\ c[j] = "(") THEN 0
         ELSE LET k == SkipWS(c, j + 1) IN
              IF k + 1 <= Len(c) /\ c[k] = "<" /\ c[k + 1] # ">" THEN k ELSE 0

\* m.index + m[0].length - 1 of the first match, 0 when code.match(re) is null
wrapStart(c) ==
    LET hits == {i \in 1..Len(c) : returnJSXAt(c, i) # 0}
    IN  IF hits = {} THEN 0 ELSE returnJSXAt(c, Min(hits))

RECURSIVE scanCloseNoDepth(_, _, _)
scanCloseNoDepth(c, i, depth) ==
    IF i > Len(c) THEN 0
    ELSE IF c[i] = ")" THEN i
    ELSE scanCloseNoDepth(c, i + 1, depth)

\* the while loop of cli.js:212-223; 0 stands for endIdx === -1
RECURSIVE scanClose(_, _, _)
scanClose(c, i, depth) ==
    IF i > Len(c) THEN 0
    ELSE IF c[i] = "(" THEN scanClose(c, i + 1, depth + 1)
    ELSE IF c[i] = ")" THEN (IF depth = 0 THEN i ELSE scanClose(c, i + 1, depth - 1))
    ELSE scanClose(c, i + 1, depth)

\* /\<\s*${Provider}\b/.test(inside): a regular expression literal, so ${Provider}
\* is not interpolated: "<", white space, the end of the input ($), and then the
\* characters "{Provider}", which nothing can follow the end of the input with
doubleWrapGuard(inside) ==
    \E i \in 1..Len(inside) :
        /\ inside[i] = "<"
        /\ LET j == SkipWS(inside, i + 1) IN
           /\ j = Len(inside) + 1
           /\ OccursAt(inside, <<"{", "Provider", "}">>, j)

wrapJSXReturn(c) ==
    LET start == wrapStart(c) IN
    IF start = 0 THEN c
    ELSE LET endIdx == scanClose(c, start, 0) IN
         IF endIdx = 0 THEN c
         ELSE LET beforePart == Slice(c, 1, start - 1)
                  inside == Slice(c, start, endIdx - 1)
                  afterPart == Slice(c, endIdx, Len(c))
              IN  IF doubleWrapGuard(inside) THEN c
                  ELSE beforePart \o openTag \o inside \o closeTag \o afterPart

---------------------------------------------------------------------------
(* The fallbacks taken when wrapJSXReturn changed nothing (cli.js:129-159). *)
(* The /i flag is not modelled: the lexemes are spelled in lower case.      *)

\* first position >= i that holds ">": the end of a greedy [^>]*
RECURSIVE SkipToGt(_, _)
SkipToGt(s, i) == IF i <= Len(s) /\ s[i] # ">" THEN SkipToGt(s, i + 1) ELSE i

\* "<" name [^>]* ">" at i: the position of the ">", 0 when it does not match
openElemAt(c, i, name) ==
    IF ~OccursAt(c, <<"<", name>>, i) THEN 0
    ELSE LET g == SkipToGt(c, i + 2) IN IF g <= Len(c) THEN g ELSE 0

\* /return\s*\(\s*<html([^>]*)>\s*<body([^>]*)>/ at i:
\* <<position of "<html", of its ">", of "<body", of its ">">>, <<>> when no match
htmlBodyAt(c, i) ==
    IF c[i] # "return" THEN <<>>
    ELSE LET j == SkipWS(c, i + 1) IN
         IF ~(j <= Len(c) /\ c[j] = "(") THEN <<>>
         ELSE LET h  == SkipWS(c, j + 1)
                  hg == openElemAt(c, h, "html")
              IN  IF hg = 0 THEN <<>>
                  ELSE LET b  == SkipWS(c, hg + 1)
                           bg == openElemAt(c, b, "body")
                       IN  IF bg = 0 THEN <<>> ELSE <<h, hg, b, bg>>

\* .replace(/return\s*\(\s*<html([^>]*)>\s*<body([^>]*)>/i,
\*          (m, a, b) => `return (<html${a}><body${b}><${providerName}>`)
replaceHtmlBody(c) ==
    LET hits == {i \in 1..Len(c) : htmlBodyAt(c, i) # <<>>} IN
    IF hits = {} THEN c
    ELSE LET i == Min(hits)
             m == htmlBodyAt(c, i)
             a == Slice(c, m[1] + 2, m[2] - 1)
             b == Slice(c, m[3] + 2, m[4] - 1)
         IN  Slice(c, 1, i - 1)
                 \o <<"return", " ", "(", "<", "html">> \o a \o <<">", "<", "body">> \o b
                 \o <<">">> \o openTag
                 \o Slice(c, m[4] + 1, Len(c))

\* /<\/body>\s*<\/html>\s*\)\s*;?\s*$/ matched at i
bodyHtmlEndAt(c, i) ==
    /\ OccursAt(c, <<"</", "body", ">">>, i)
    /\ LET h == SkipWS(c, i + 3) IN
       /\ OccursAt(c, <<"</", "html", ">">>, h)
       /\ LET p == SkipWS(c, h + 3) IN
          /\ p <= Len(c) /\ c[p] = ")"
          /\ LET q == SkipWS(c, p + 1) IN
             \/ q = Len(c) + 1
             \/ q <= Len(c) /\ c[q] = ";" /\ SkipWS(c, q + 1) = Len(c) + 1

\* .replace(/<\/body>\s*<\/html>\s*\)\s*;?\s*$/i, `</${providerName}></body></html>)`)
replaceBodyHtmlEnd(c) ==
    LET hits == {i \in 1..Len(c) : bodyHtmlEndAt(c, i)} IN
    IF hits = {} THEN c
    ELSE Slice(c, 1, Min(hits) - 1) \o closeTag
             \o <<"</", "body", ">", "</", "html", ">", ")">>

\* /return\s*\(/ at i: the position after the trailing \s* of /return\s*\(\s*/, 0
\* when it does not match
returnParenAt(c, i) ==
    IF c[i] # "return" THEN 0
    ELSE LET j == SkipWS(c, i + 1) IN
         IF j <= Len(c) /\ c[j] = "(" THEN SkipWS(c, j + 1) ELSE 0

hasReturnParen(c) == \E i \in 1..Len(c) : returnParenAt(c, i) # 0

\* cli.js:150-157
genericFallback(c) ==
    LET i == Min({k \in 1..Len(c) : returnParenAt(c, k) # 0})
        e == returnParenAt(c, i)
        opened == Slice(c, 1, e - 1) \o openTag \o Slice(c, e, Len(c))
        lastParen == LastIndexOf(opened, <<")", ";">>)
    IN  IF lastParen # 0
        THEN Slice(opened, 1, lastParen - 1) \o closeTag
                 \o Slice(opened, lastParen, Len(opened))
        ELSE opened

isNextLayout(c, stk) ==
    /\ stk = "next"
    /\ Includes(c, <<"export", " ", "default", " ", "function">>)
    /\ Includes(c, <<"{", " ", "children", " ", "}">>)

\* the body of `if (code === before)` (cli.js:129-159)
fallbackWrap(c, stk) ==
    IF isNextLayout(c, stk) THEN replaceBodyHtmlEnd(replaceHtmlBody(c))
    ELSE IF hasReturnParen(c) THEN genericFallback(c)
    ELSE c

---------------------------------------------------------------------------
(* Stack detection (cli.js:18-32).                                         *)

\* readJSONSafe(...) || {}, then { ...dependencies, ...devDependencies }
deps(pkg) ==
    IF pkg.kind = "ok" THEN pkg.dependencies \cup pkg.devDependencies ELSE {}

isNext(pkg) == "next" \in deps(pkg)

isRN(pkg, mk) ==
    \/ "react-native" \in deps(pkg)
    \/ "app.json" \in mk
    \/ "expo.json" \in mk
    \/ "expo.config.js" \in mk

detectStackNativeFirst(pkg, mk) ==
    IF isRN(pkg, mk) THEN "react-native" ELSE IF isNext(pkg) THEN "next" ELSE "react"

detectStack(pkg, mk) ==
    IF isNext(pkg) THEN "next" ELSE IF isRN(pkg, mk) THEN "react-native" ELSE "react"

findRootLast(rs) ==
    LET found == {i \in CandIdx : rs[i].exists}
    IN  IF found = {} THEN 0 ELSE Max(found)

\* candidates.map(...).find(fs.existsSync): 0 when nothing is found
findRoot(rs) ==
    LET found == {i \in CandIdx : rs[i].exists}
    IN  IF found = {} THEN 0 ELSE Min(found)

templateForWebOnly(stk) == "web"

\* the template readTemplate is asked for (cli.js:82-85), by its content
templateFor(stk) == IF stk = "react-native" THEN "native" ELSE "web"

---------------------------------------------------------------------------
(* The projects the CLI is run in.                                         *)

MaxExisting == 2    \* candidate root files that exist at once
MaxTail == 4        \* lexemes after "return (<" in the generated root files
MaxRuns == 2        \* invocations of the CLI in the same project

NoFile == [exists |-> FALSE, data |-> <<>>]
FileOf(data) == [exists |-> TRUE, data |-> data]

DepNames == {"next", "react-native"}
MarkerFiles == {"app.json", "expo.json", "expo.config.js"}

PkgOk(d, dd) == [kind |-> "ok", dependencies |-> d, devDependencies |-> dd]
PkgBroken(k) == [kind |-> k, dependencies |-> {}, devDependencies |-> {}]

AllPkgs ==
    {PkgOk(d, dd) : d \in SUBSET DepNames, dd \in SUBSET DepNames}
        \cup {PkgBroken("missing"), PkgBroken("unparsable")}

\* one package.json per stack
SomePkgs == {PkgOk({"next"}, {}), PkgOk({"react-native"}, {}), PkgBroken("missing")}

impReact == <<"import", " ", "React from \"react\"", ";", "\n">>
impMulti ==
    <<"import", " ", "React, {", "\n", "useState,", "\n", "} from \"react\"", ";", "\n">>
impTwoNames ==
    <<"import", " ", "{", " ", Provider, ",", " ", "useNotifications", " ", "}", " ",
      "from", " ", "\"", "lib", "\"", ";", "\n">>
impEcho == <<"import", " ", "a", ";", "\n", "//", " ", "import", " ", "a", ";", "\n">>

fnApp(body) ==
    <<"export", " ", "default", " ", "function", " ", "App", "(", ")", " ", "{", "\n">>
        \o body \o <<"}", "\n">>
fnLayout(body) ==
    <<"export", " ", "default", " ", "function", " ", "RootLayout", "(",
      "{", " ", "children", " ", "}", ")", " ", "{", "\n">>
        \o body \o <<"}", "\n">>
retParen(jsx) == <<"return", " ", "(">> \o jsx \o <<")", ";", "\n">>
mainElem == <<"<", "Main", " ", "/>">>
htmlBody(inner) ==
    <<"\n", "<", "html", " lang=\"en\"", ">", "\n", "<", "body", ">">> \o inner
        \o <<"</", "body", ">", "\n", "</", "html", ">", "\n">>

SimpleApp == impReact \o fnApp(retParen(mainElem))
NoImportApp == fnApp(retParen(mainElem))
MultiImportApp == impMulti \o fnApp(retParen(mainElem))
NextLayout == impReact \o fnLayout(retParen(htmlBody(<<"{children}">>)))
NextLayoutOddParen == fnLayout(retParen(htmlBody(<<"(", "{children}">>)))
FragmentApp == fnApp(retParen(<<"<", ">">> \o mainElem \o <<"</", ">">>))
NoSemicolonFragmentApp ==
    fnApp(<<"return", " ", "(", "<", ">">> \o mainElem \o <<"</", ">", ")", "\n">>)
BareReturnApp == fnApp(<<"return", " ">> \o mainElem \o <<";", "\n">>)
CallInJSXApp == fnApp(retParen(<<"<", "p", ">", "{", "f", "(", "x", ")", "}", "</", "p", ">">>))
TwoNamesApp == impTwoNames \o fnApp(retParen(mainElem))
EchoApp == impEcho \o fnApp(retParen(mainElem))

Samples ==
    {SimpleApp, NoImportApp, MultiImportApp, NextLayout, NextLayoutOddParen,
     FragmentApp, NoSemicolonFragmentApp, BareReturnApp, CallInJSXApp, TwoNamesApp,
     EchoApp}

TailAlphabet == {"(", ")", "x", ";"}

SeqsUpTo(S, n) == UNION {[1..k -> S] : k \in 0..n}

\* root files generated around one "return (<"
Generated ==
    {head \o <<"return", "(", "<">> \o tail :
        head \in {<<>>, <<"return", "(", "x", ")", ";">>, <<"return", "(", "<", ">", ")", ";">>},
        tail \in SeqsUpTo(TailAlphabet, MaxTail)}

RootsWith(ex, data) == [i \in CandIdx |-> IF i \in ex THEN FileOf(data) ELSE NoFile]

NoProviders == [e \in {"tsx", "jsx"} |-> "absent"]
ProviderStates ==
    {NoProviders,
     [e \in {"tsx", "jsx"} |-> IF e = "tsx" THEN "user" ELSE "absent"],
     [e \in {"tsx", "jsx"} |-> "user"]}

Project(pkg, mk, rs, pf) == [pkgJson |-> pkg, markers |-> mk, roots |-> rs, providerFiles |-> pf]

\* every package.json and every set of marker files
DetectProjects ==
    {Project(pkg, mk, RootsWith({8}, SimpleApp), NoProviders) :
        pkg \in AllPkgs, mk \in SUBSET MarkerFiles}

\* every set of at most MaxExisting candidates
LocateProjects ==
    {Project(pkg, {}, RootsWith(ex, SimpleApp), NoProviders) :
        pkg \in SomePkgs,
        ex \in {e \in SUBSET CandIdx : Cardinality(e) <= MaxExisting}}

\* every sample root file, at three places, with and without a provider file
PatchProjects ==
    {Project(pkg, {}, RootsWith({i}, data), pf) :
        pkg \in SomePkgs, i \in {1, 8, 9}, data \in Samples, pf \in ProviderStates}

GeneratedProjects ==
    {Project(PkgBroken("missing"), {}, RootsWith({8}, data), NoProviders) : data \in Generated}

Projects == DetectProjects \cup LocateProjects \cup PatchProjects \cup GeneratedProjects

---------------------------------------------------------------------------
(* One invocation of cli.js, statement by statement.                       *)

Snapshot(prev) ==
    [roots |-> roots, providerFiles |-> providerFiles, targetDir |-> targetDir,
     prevExit |-> prev]

CliInit ==
    /\ \E p \in Projects :
        /\ pkgJson = p.pkgJson
        /\ markers = p.markers
        /\ roots = p.roots
        /\ providerFiles = p.providerFiles
        /\ targetDir = (\E e \in {"tsx", "jsx"} : p.providerFiles[e] # "absent")
        /\ atStart = [roots |-> p.roots, providerFiles |-> p.providerFiles,
                      targetDir |-> (\E e \in {"tsx", "jsx"} : p.providerFiles[e] # "absent"),
                      prevExit |-> -1]
    /\ pc = "detect"
    /\ stack = ""
    /\ rootPath = 0
    /\ code = <<>>
    /\ before = <<>>
    /\ exitCode = -1
    /\ err = ""
    /\ runs = 1
    /\ touched = {}

project == <<pkgJson, markers>>
files == <<roots, providerFiles, targetDir>>
observed == <<atStart, touched>>

ExitQuietly(msg) == pc' = "failed" /\ exitCode' = 0 /\ err' = msg

\* process.exit(1), from the guard of cli.js:61-66 or the catch of cli.js:174-177
Exit1(msg) == pc' = "failed" /\ exitCode' = 1 /\ err' = msg

\* cli.js:18-33
DetectStack ==
    /\ pc = "detect"
    /\ stack' = detectStack(pkgJson, markers)
    /\ pc' = "locate"
    /\ UNCHANGED <<toastVars, project, files, observed, rootPath, code, before, exitCode, err, runs>>

\* cli.js:58-60, 67
LocateRoot ==
    /\ pc = "locate"
    /\ findRoot(roots) # 0
    /\ rootPath' = findRoot(roots)
    /\ pc' = "mkdir"
    /\ UNCHANGED <<toastVars, project, files, observed, stack, code, before, exitCode, err, runs>>

\* cli.js:61-66
NoRootFile ==
    /\ pc = "locate"
    /\ findRoot(roots) = 0
    /\ Exit1("no root file")
    /\ UNCHANGED <<toastVars, project, files, observed, stack, rootPath, code, before, runs>>

\* cli.js:72-73
MakeTargetDir ==
    /\ pc = "mkdir"
    /\ targetDir' = TRUE
    /\ pc' = "emit"
    /\ UNCHANGED <<toastVars, project, roots, providerFiles, observed, stack, rootPath, code, before,
                   exitCode, err, runs>>

\* cli.js:73 throws (a file named src, no permission, ...)
MakeTargetDirFails ==
    /\ pc = "mkdir"
    /\ ~targetDir
    /\ Exit1("mkdir")
    /\ UNCHANGED <<toastVars, project, files, observed, stack, rootPath, code, before, runs>>

\* cli.js:81, 88-94
KeepProvider ==
    /\ pc = "emit"
    /\ providerFiles[providerExt(candidates[rootPath])] # "absent"
    /\ pc' = "read"
    /\ UNCHANGED <<toastVars, project, files, observed, stack, rootPath, code, before, exitCode, err, runs>>

\* cli.js:81-87
CreateProvider ==
    /\ pc = "emit"
    /\ providerFiles[providerExt(candidates[rootPath])] = "absent"
    /\ providerFiles' =
          [providerFiles EXCEPT ![providerExt(candidates[rootPath])] = templateFor(stack)]
    /\ pc' = "read"
    /\ UNCHANGED <<toastVars, project, roots, targetDir, observed, stack, rootPath, code, before,
                   exitCode, err, runs>>

\* cli.js:84-85, 189: readTemplate throws
TemplateMissing ==
    /\ pc = "emit"
    /\ providerFiles[providerExt(candidates[rootPath])] = "absent"
    /\ Exit1("template missing")
    /\ UNCHANGED <<toastVars, project, files, observed, stack, rootPath, code, before, runs>>

\* cli.js:86 throws: the file was not opened, or was opened (created) and not
\* written in full
WriteProviderFails ==
    /\ pc = "emit"
    /\ providerFiles[providerExt(candidates[rootPath])] = "absent"
    /\ \E left \in {"absent", "partial"} :
          providerFiles' = [providerFiles EXCEPT ![providerExt(candidates[rootPath])] = left]
    /\ Exit1("write provider")
    /\ UNCHANGED <<toastVars, project, roots, targetDir, observed, stack, rootPath, code, before, runs>>

\* cli.js:97
ReadRoot ==
    /\ pc = "read"
    /\ code' = roots[rootPath].data
    /\ touched' = touched \cup {rootPath}
    /\ pc' = "import"
    /\ UNCHANGED <<toastVars, project, files, atStart, stack, rootPath, before, exitCode, err, runs>>

\* cli.js:97 throws
ReadRootFails ==
    /\ pc = "read"
    /\ touched' = touched \cup {rootPath}
    /\ Exit1("read root")
    /\ UNCHANGED <<toastVars, project, files, atStart, stack, rootPath, code, before, runs>>

\* cli.js:99-123
InjectImport ==
    /\ pc = "import"
    /\ code' = injectImport(code, candidates[rootPath])
    /\ pc' = "wrap"
    /\ UNCHANGED <<toastVars, project, files, observed, stack, rootPath, before, exitCode, err, runs>>

\* cli.js:126-127
WrapReturn ==
    /\ pc = "wrap"
    /\ before' = code
    /\ code' = wrapJSXReturn(code)
    /\ pc' = "fallback"
    /\ UNCHANGED <<toastVars, project, files, observed, stack, rootPath, exitCode, err, runs>>

\* cli.js:129-159
Fallback ==
    /\ pc = "fallback"
    /\ code' = IF code = before THEN fallbackWrap(code, stack) ELSE code
    /\ pc' = "write"
    /\ UNCHANGED <<toastVars, project, files, observed, stack, rootPath, before, exitCode, err, runs>>

\* cli.js:161-173, and the end of the process
WriteRoot ==
    /\ pc = "write"
    /\ roots' = [roots EXCEPT ![rootPath] = FileOf(code)]
    /\ touched' = touched \cup {rootPath}
    /\ pc' = "done"
    /\ exitCode' = 0
    /\ UNCHANGED <<toastVars, project, providerFiles, targetDir, atStart, stack, rootPath, code,
                   before, err, runs>>

\* cli.js:161 throws: writeFileSync opens the file with flag "w", so either the
\* open failed and the file is as it was, or the file was truncated and the
\* write failed
WriteRootFails ==
    /\ pc = "write"
    /\ \E left \in {roots[rootPath], FileOf(<<>>)} :
          roots' = [roots EXCEPT ![rootPath] = left]
    /\ touched' = touched \cup {rootPath}
    /\ Exit1("write root")
    /\ UNCHANGED <<toastVars, project, providerFiles, targetDir, atStart, stack, rootPath, code, before,
                   runs>>

\* the user runs the CLI again in the same project: a new process (cli.js:14)
RunAgain ==
    /\ pc \in {"done", "failed"}
    /\ runs < MaxRuns
    /\ runs' = runs + 1
    /\ atStart' = Snapshot(exitCode)
    /\ touched' = {}
    /\ pc' = "detect"
    /\ stack' = ""
    /\ rootPath' = 0
    /\ code' = <<>>
    /\ before' = <<>>
    /\ exitCode' = -1
    /\ err' = ""
    /\ UNCHANGED <<toastVars, project, files>>

---------------------------------------------------------------------------
(* The toast provider (templates/provider.web.tsx and provider.rn.tsx hold *)
(* the same show, hide and clearAll).  An id is Math.random().toString(36) *)
(* and is taken to be new: no toast displayed and no timer carries it.     *)

MaxIds == 2         \* ids (and so toasts displayed, and timers pending) at once

DefaultDuration == 3500

Ids == 1..MaxIds
Handles == 1..MaxIds

\* o.duration: a number, or something else (undefined)
DurationOptions ==
    {[kind |-> "none", ms |-> 0]} \cup {[kind |-> "num", ms |-> d] : d \in {-1, 0, 200}}

NotAsked == [kind |-> "none", ms |-> -1]

\* typeof o.duration === "number" ? o.duration : 3500
noticeDuration(o) == IF o.kind = "num" THEN o.ms ELSE DefaultDuration

needsTimerFromZero(n) == n.duration >= 0

\* if (n.duration > 0)
needsTimer(n) == n.duration > 0

displayed == {items[i].id : i \in 1..Len(items)}

ToastIdle ==
    /\ items = <<>>
    /\ timers = [i \in Ids |-> 0]
    /\ scheduled = {}
    /\ asked = [i \in Ids |-> NotAsked]
    /\ lastOp = ""

\* the CLI is not running
CliIdle ==
    /\ pkgJson = PkgBroken("missing")
    /\ markers = {}
    /\ roots = RootsWith({}, <<>>)
    /\ providerFiles = NoProviders
    /\ targetDir = FALSE
    /\ atStart = [roots |-> RootsWith({}, <<>>), providerFiles |-> NoProviders,
                  targetDir |-> FALSE, prevExit |-> -1]
    /\ pc = "idle"
    /\ stack = ""
    /\ rootPath = 0
    /\ code = <<>>
    /\ before = <<>>
    /\ exitCode = -1
    /\ err = ""
    /\ runs = 0
    /\ touched = {}

\* what stays of `asked` once the toasts displayed are `its`
askedFor(its, a) ==
    [i \in Ids |-> IF \E k \in 1..Len(its) : its[k].id = i THEN a[i] ELSE NotAsked]

\* show(o) (part_000:45-61)
show(o, label) ==
    \E id \in Ids :
        /\ id \notin displayed
        /\ timers[id] = 0
        /\ \A p \in scheduled : p[2] # id
        /\ LET n == [id |-> id, duration |-> noticeDuration(o), actionLabel |-> label] IN
           /\ items' = <<n>> \o items
           /\ asked' = [asked EXCEPT ![id] = o]
           /\ IF needsTimer(n)
              THEN \E h \in Handles :
                      /\ \A p \in scheduled : p[1] # h
                      /\ timers' = [timers EXCEPT ![id] = h]
                      /\ scheduled' = scheduled \cup {<<h, id>>}
              ELSE UNCHANGED <<timers, scheduled>>

hideNoCancel(id, pending) ==
    /\ scheduled' = pending
    /\ timers' = timers
    /\ items' = SelectSeq(items, LAMBDA x : x.id # id)
    /\ asked' = askedFor(SelectSeq(items, LAMBDA x : x.id # id), asked)

\* hide(id) (part_000:63-69), run when the runtime has `pending` timers left
hide(id, pending) ==
    /\ IF timers[id] # 0
       THEN /\ scheduled' = {p \in pending : p[1] # timers[id]}
            /\ timers' = [timers EXCEPT ![id] = 0]
       ELSE /\ scheduled' = pending
            /\ timers' = timers
    /\ items' = SelectSeq(items, LAMBDA x : x.id # id)
    /\ asked' = askedFor(SelectSeq(items, LAMBDA x : x.id # id), asked)

Show ==
    /\ \E o \in DurationOptions : \E label \in BOOLEAN : show(o, label)
    /\ lastOp' = "show"
    /\ UNCHANGED cliVars

\* the application calls hide with any id
Hide ==
    /\ \E id \in Ids : hide(id, scheduled)
    /\ lastOp' = "hide"
    /\ UNCHANGED cliVars

\* the dismiss button of a displayed toast (part_000:104-110)
PressDismiss ==
    /\ \E id \in displayed : hide(id, scheduled)
    /\ lastOp' = "dismiss"
    /\ UNCHANGED cliVars

\* the action button of a displayed toast that has an action label
\* (part_000:90-103): onActionPress, and hide whether or not it throws
PressAction ==
    /\ \E i \in 1..Len(items) : items[i].actionLabel /\ hide(items[i].id, scheduled)
    /\ lastOp' = "action"
    /\ UNCHANGED cliVars

\* clearAll() (part_000:71-75)
ClearAll ==
    /\ scheduled' = {p \in scheduled : \A i \in Ids : timers[i] # p[1]}
    /\ timers' = [i \in Ids |-> 0]
    /\ items' = <<>>
    /\ asked' = askedFor(<<>>, asked)
    /\ lastOp' = "clearAll"
    /\ UNCHANGED cliVars

\* a pending timer fires: the callback of part_000:58 calls hide(id)
TimerFire(p) ==
    /\ p \in scheduled
    /\ hide(p[2], scheduled \ {p})
    /\ lastOp' = "timer"
    /\ UNCHANGED cliVars

TimerFires == \E p \in Handles \X Ids : TimerFire(p)

ToastInit == CliIdle /\ ToastIdle

ToastNext ==
    \/ Show
    \/ Hide
    \/ PressDismiss
    \/ PressAction
    \/ ClearAll
    \/ TimerFires

\* the runtime fires every timer that stays pending
ToastSpec ==
    /\ ToastInit
    /\ [][ToastNext]_vars
    /\ \A p \in Handles \X Ids : WF_vars(TimerFire(p))

Init == CliInit /\ ToastIdle

Next ==
    \/ DetectStack
    \/ LocateRoot
    \/ NoRootFile
    \/ MakeTargetDir
    \/ MakeTargetDirFails
    \/ KeepProvider
    \/ CreateProvider
    \/ TemplateMissing
    \/ WriteProviderFails
    \/ ReadRoot
    \/ ReadRootFails
    \/ InjectImport
    \/ WrapReturn
    \/ Fallback
    \/ WriteRoot
    \/ WriteRootFails
    \/ RunAgain

Spec == Init /\ [][Next]_vars

---------------------------------------------------------------------------
(* Properties of the CLI.                                                  *)

root == candidates[rootPath]

\* the root file as the invocation found it, and as it is now
rootBefore == atStart.roots[rootPath].data
rootNow == roots[rootPath].data

firstRun == atStart.prevExit = -1

\* C1: a run of the CLI that follows a successful run leaves the root file
\* exactly as that run left it (no second import, no second wrapper).
C1_Idempotent ==
    (pc = "done" /\ atStart.prevExit = 0) => rootNow = rootBefore

\* how a bundler resolves a relative module specifier from a directory:
\* "." stays, ".." goes up, a name goes down
RECURSIVE resolveFrom(_, _)
resolveFrom(dir, segs) ==
    IF segs = <<>> THEN dir
    ELSE IF segs[1] = "." THEN resolveFrom(dir, Tail(segs))
    ELSE IF segs[1] = ".." THEN resolveFrom(Front(dir), Tail(segs))
    ELSE resolveFrom(Append(dir, segs[1]), Tail(segs))

isRelativeSpecifier(f) == f.dir # <<>> /\ f.dir[1] \in {".", ".."}

\* C2: the module specifier of the injected import starts with "./" or "../"
\* and, resolved from the directory of the root file, names
\* src/nim-react-toastify/NotificationsProvider, without an extension.
C2_ImportSpecifierResolves ==
    (pc = "wrap" /\ Includes(code, importLine(root))) =>
        LET spec == importSpecifier(root) IN
        /\ Includes(code, <<"from", " ", "\"">> \o pathText(spec) \o <<"\"">>)
        /\ isRelativeSpecifier(spec)
        /\ spec.name = <<Provider>>
        /\ resolveFrom(root.dir, spec.dir) = targetDirPath

\* the positions in a text at which a lexeme sequence occurs
Occurrences(c, needle) == {i \in 1..Len(c) : OccursAt(c, needle, i)}

\* C3: for the App Router layout <html ...><body ...>{children}</body></html>
\* the patched root file has the provider inside <body>, directly around
\* {children}, and <html> and <body> outside the provider.
C3_ProviderInsideBody ==
    (pc = "done" /\ firstRun /\ stack = "next" /\ rootBefore = NextLayout) =>
        /\ Includes(rootNow, <<"<", "body", ">">> \o openTag \o <<"{children}">>
                                 \o closeTag \o <<"</", "body", ">">>)
        /\ Cardinality(Occurrences(rootNow, openTag)) = 1
        /\ Cardinality(Occurrences(rootNow, closeTag)) = 1
        /\ Min(Occurrences(rootNow, <<"<", "html">>)) < Min(Occurrences(rootNow, openTag))

hasDep(name) ==
    /\ pkgJson.kind = "ok"
    /\ name \in pkgJson.dependencies \/ name \in pkgJson.devDependencies

hasMarker == \E m \in {"app.json", "expo.json", "expo.config.js"} : m \in markers

\* C4: the detected stack is next when "next" is a dependency or a
\* devDependency, whatever else is there; otherwise react-native when
\* "react-native" is one or a marker file exists; otherwise react, which
\* includes a missing or unparsable package.json without marker files.
C4_StackDetection ==
    pc # "detect" =>
        /\ stack \in {"next", "react-native", "react"}
        /\ stack = "next" <=> hasDep("next")
        /\ stack = "react-native" <=> (~hasDep("next") /\ (hasDep("react-native") \/ hasMarker))
        /\ stack = "react" <=> (~hasDep("next") /\ ~hasDep("react-native") /\ ~hasMarker)
        /\ (pkgJson.kind # "ok" /\ ~hasMarker) => stack = "react"

C4_Witness ==
    /\ pc = "done"
    /\ stack = "next"
    /\ hasDep("react-native")
    /\ hasMarker

existedAtStart == {i \in CandIdx : atStart.roots[i].exists}

\* C5: the root file is the first candidate, in list order, that exists; no
\* other candidate is read or written; without any candidate the run ends
\* with exit status 1 and no directory or file created or changed.
C5_FirstExistingCandidate ==
    /\ rootPath # 0 =>
          /\ rootPath \in existedAtStart
          /\ \A j \in existedAtStart : rootPath <= j
    /\ touched \subseteq {rootPath} \ {0}
    /\ \A j \in CandIdx : j # rootPath => roots[j] = atStart.roots[j]
    /\ existedAtStart = {} =>
          /\ pc \in {"detect", "locate", "failed"}
          /\ pc = "failed" => exitCode = 1
          /\ roots = atStart.roots
          /\ providerFiles = atStart.providerFiles
          /\ targetDir = atStart.targetDir
    /\ (existedAtStart # {} /\ pc \notin {"detect", "locate"}) => rootPath # 0

C5_Witness ==
    /\ pc = "done"
    /\ Cardinality(existedAtStart) = 2
    /\ rootNow # rootBefore
    /\ \E j \in existedAtStart : j > rootPath /\ roots[j] = atStart.roots[j]

afterEmit == pc \in {"read", "import", "wrap", "fallback", "write", "done"}

\* C6: a provider file that exists is never overwritten, and the run goes on;
\* one that does not exist is created from the native template exactly when
\* the stack is react-native and from the web template otherwise (a run in
\* which the template cannot be read or the file cannot be written fails).
C6_EmitterNeverOverwrites ==
    /\ \A e \in {"tsx", "jsx"} :
          atStart.providerFiles[e] # "absent" => providerFiles[e] = atStart.providerFiles[e]
    /\ (pc = "emit" /\ providerFiles[providerExt(root)] # "absent") => ENABLED KeepProvider
    /\ afterEmit =>
          LET e == IF Last(root.name) \in {"ts", "tsx"} THEN "tsx" ELSE "jsx" IN
          /\ atStart.providerFiles[e] = "absent" =>
                /\ stack = "react-native" => providerFiles[e] = "native"
                /\ stack # "react-native" => providerFiles[e] = "web"
          /\ \A o \in {"tsx", "jsx"} \ {e} : providerFiles[o] = atStart.providerFiles[o]

C6_Witness ==
    /\ pc = "done"
    /\ stack = "react-native"
    /\ atStart.providerFiles["tsx"] = "user"
    /\ atStart.providerFiles["jsx"] = "absent"
    /\ providerFiles["jsx"] = "native"
    /\ providerFiles["tsx"] = "user"

\* what a failed run may do next: nothing but being started again
StoppedAfterFailure ==
    pc = "failed" =>
        /\ pc' = "detect"
        /\ runs' = runs + 1
        /\ UNCHANGED <<roots, providerFiles, targetDir>>

\* C7 as claimed: every failure ends the run with a non-zero exit status and
\* no further step, and every failed run leaves the root file as it was.
C7_FailedRunLeavesRoot ==
    /\ [](pc = "failed" => (exitCode # 0 /\ roots = atStart.roots))
    /\ [][StoppedAfterFailure]_vars

\* C7, amended: every failure ends the run with a non-zero exit status and no
\* further step; the root file is written by the last step only, so it is as
\* it was in every run that has not reached that step or failed before it;
\* only a failure of that last write can leave it changed (truncated).
C7_FailureBeforeWriteLeavesRoot ==
    /\ [](pc = "failed" => (exitCode # 0 /\ err # ""))
    /\ []((pc = "failed" /\ err # "write root") => roots = atStart.roots)
    /\ [](pc \notin {"done", "failed"} => roots = atStart.roots)
    /\ [][StoppedAfterFailure]_vars

C7_Witness ==
    /\ pc = "failed"
    /\ err = "read root"
    /\ exitCode = 1
    /\ providerFiles # atStart.providerFiles
    /\ roots = atStart.roots

\* the import statements of a text: "import" at the start of a line, up to
\* the ";" that ends the statement
importStmtStarts(c) ==
    {i \in 1..Len(c) : c[i] = "import" /\ (i = 1 \/ c[i - 1] = "\n")}

importStmtEnd(c, i) ==
    LET ends == {j \in i..Len(c) : c[j] = ";"}
    IN  IF ends = {} THEN Len(c) ELSE Min(ends)

importsProvider(c) ==
    \E i \in importStmtStarts(c) : \E k \in i..importStmtEnd(c, i) : c[k] = Provider

\* C8 as claimed: without an import of NotificationsProvider in the root file,
\* the import is put right after the last import statement (at the top when
\* there is none), never inside a statement, and nothing else changes; with
\* one, nothing is added.
C8_ImportAfterLastStatement ==
    (pc = "wrap" /\ firstRun) =>
        LET c == rootNow
            line == importLine(root)
        IN  IF importsProvider(c) THEN code = c
            ELSE IF importStmtStarts(c) = {} THEN code = line \o <<"\n">> \o c
            ELSE LET p == importStmtEnd(c, Max(importStmtStarts(c)))
                 IN  code = Slice(c, 1, p) \o <<"\n">> \o line \o <<"\n">>
                                \o Slice(c, p + 1, Len(c))

\* "return", white space, "(", white space, and "<" at k
jsxReturn(c, i, k) ==
    /\ c[i] = "return"
    /\ c[k] = "<"
    /\ \E j \in (i + 1)..(k - 1) :
          /\ c[j] = "("
          /\ \A m \in ((i + 1)..(k - 1)) \ {j} : IsWS(c[m])

\* the same, with something other than ">" after the "<": an element, not a
\* fragment <>
elementReturn(c, i, k) == jsxReturn(c, i, k) /\ k < Len(c) /\ c[k + 1] # ">"

\* the ")" at e closes the "(" before k: as many "(" as ")" between them
closesAt(c, k, e) ==
    /\ c[e] = ")"
    /\ Cardinality({m \in k..(e - 1) : c[m] = "("})
         = Cardinality({m \in k..(e - 1) : c[m] = ")"})

\* c with the provider tags put before position k and before position e
wrappedAt(c, k, e) ==
    Slice(c, 1, k - 1) \o <<"<", "NotificationsProvider", ">">> \o Slice(c, k, e - 1)
        \o <<"</", "NotificationsProvider", ">">> \o Slice(c, e, Len(c))

\* r is c wrapped as C10 says, `starts` being the <<i, k>> of the returns that
\* count: if r differs from c, it is c wrapped from the "<" of the first of
\* them to the ")" that closes it; without one, or without that ")", r is c
wrapFrame(c, r, starts) ==
    IF starts = {} THEN r = c
    ELSE LET first == CHOOSE s \in starts : \A t \in starts : s[1] <= t[1]
             ends == {e \in first[2]..Len(c) : closesAt(c, first[2], e)}
         IN  IF ends = {} THEN r = c
             ELSE r # c => r = wrappedAt(c, first[2], Min(ends))

C11_TagsInsertedInPairs ==
    (pc = "done"
        /\ Cardinality(Occurrences(rootBefore, openTag))
             = Cardinality(Occurrences(rootBefore, closeTag)))
    => Cardinality(Occurrences(rootNow, openTag))
         = Cardinality(Occurrences(rootNow, closeTag))

---------------------------------------------------------------------------
(* Properties of the toast provider.                                       *)

toastOf(id) == items[CHOOSE i \in 1..Len(items) : items[i].id = id]

timerPending(id) == \E p \in scheduled : p[2] = id

persistentShown == {items[i] : i \in {k \in 1..Len(items) : items[k].duration = 0}}

shownAfter == {items'[i] : i \in 1..Len(items')}

\* C9: a toast shown with a duration above 0 (3500 when no number is given)
\* has a timer pending and is removed when it fires, so it is eventually
\* removed; a toast shown with duration 0 has no timer, no timer firing
\* removes it, and what removes it is hide, clearAll or one of its buttons.
C9_TimedToastsExpire ==
    /\ [](\A i \in 1..Len(items) :
            LET n == items[i] IN
            /\ asked[n.id].kind = "none" => n.duration = 3500
            /\ asked[n.id].kind = "num" => n.duration = asked[n.id].ms
            /\ n.duration > 0 => timerPending(n.id)
            /\ n.duration = 0 => ~timerPending(n.id))
    /\ \A id \in Ids :
          (id \in displayed /\ toastOf(id).duration > 0) ~> (id \notin displayed)
    /\ [][\A p \in scheduled :
            TimerFire(p) => (\A i \in 1..Len(items') : items'[i].id # p[2])]_vars
    /\ [][TimerFires => persistentShown \subseteq shownAfter]_vars
    /\ [][~(persistentShown \subseteq shownAfter)
            => lastOp' \in {"hide", "dismiss", "action", "clearAll"}]_vars

\* a timer has just removed a timed toast and left a persistent one displayed
C9_Witness ==
    /\ lastOp = "timer"
    /\ Len(items) = 1
    /\ items[1].duration = 0
    /\ asked[items[1].id] = [kind |-> "num", ms |-> 0]
    /\ scheduled = {}


timerIds == {id \in Ids : timers[id] # 0}

\* C12: every id with a pending auto-dismiss timer is the id of a displayed
\* toast, and the timer pending for it is the one the provider remembers;
\* hide(id) cancels and forgets the timer of id and removes its toast;
\* clearAll cancels and forgets every timer and empties the list; a timer
\* fires only for a toast that is displayed; hide of an id that is not
\* displayed changes nothing.
C12_TimersBelongToDisplayed ==
    /\ [](/\ \A p \in scheduled : p[2] \in displayed /\ timers[p[2]] = p[1]
          /\ \A id \in timerIds : id \in displayed /\ <<timers[id], id>> \in scheduled)
    /\ [][\A id \in Ids :
            hide(id, scheduled) =>
                /\ timers'[id] = 0
                /\ \A p \in scheduled' : p[2] # id
                /\ \A i \in 1..Len(items') : items'[i].id # id
                /\ \A p \in scheduled : p[2] # id => p \in scheduled']_vars
    /\ [][ClearAll =>
            /\ items' = <<>>
            /\ scheduled' = {}
            /\ \A id \in Ids : timers'[id] = 0]_vars
    /\ [][\A p \in scheduled : TimerFire(p) => p[2] \in displayed]_vars
    /\ [][\A id \in Ids \ displayed :
            hide(id, scheduled) => UNCHANGED <<items, timers, scheduled, asked>>]_vars

\* hide has acted and a timed toast is displayed with its timer pending,
\* while the other id has neither a toast nor a timer
C12_Witness ==
    /\ lastOp = "hide"
    /\ Len(items) = 1
    /\ items[1].duration > 0
    /\ scheduled = {<<timers[items[1].id], items[1].id>>}
    /\ timers[items[1].id] # 0
    /\ \E id \in Ids \ displayed : timers[id] = 0 /\ ~timerPending(id)

=============================================================================
